---- MODULE Spec2Model ----
(***************************************************************************)
(* Model of download_data (src/demo.ipynb, lines 152-166): the notebook's  *)
(* fetch-and-cache helper.  download_data checks whether path/fname        *)
(* exists and otherwise calls pooch.retrieve(url, known_hash, path, fname, *)
(* progressbar, processor).  The steps pooch.retrieve takes (choice of the *)
(* download action, creation of the local storage, download to a temporary *)
(* file, hash check, move, Unzip processor) are modelled one action each,  *)
(* so that every intermediate state of the filesystem is a state of the    *)
(* model.  pooch is a library the notebook imports: its steps follow the   *)
(* library's retrieve, stream_download, make_local_storage and Unzip.      *)
(* The spec's NetworkError, IntegrityError and FilesystemError name the    *)
(* library's RequestException, ValueError and PermissionError/OSError;     *)
(* "ExtractError" names a failure of the extraction (BadZipFile, I/O).     *)
(***************************************************************************)
EXTENDS Integers, Sequences, FiniteSets, TLC

(***************************************************************************)
(* Bounds                                                                  *)
(***************************************************************************)
\* blobs 0..MaxBlob are the byte strings a server can serve
MaxBlob == 2
\* a blob is transferred in NumChunks chunks
NumChunks == 2
\* channel bytes 0, 127, 128, 255 and MaxSample more are tried in a pixel
MaxSample == 3

Blobs == 0..MaxBlob

\* the callers of download_data; the notebook runs one cell at a time
Callers == {1, 2}
SeqCallers == {1}

(***************************************************************************)
(* Blobs, archives and digests                                             *)
(***************************************************************************)
\* blob 0 is plain data (what zipfile rejects), every other blob is a zip
IsZip(b) == b >= 1

\* number of members of archive b: odd archives hold two members, even
\* archives are empty
MemberCount(b) == IF IsZip(b) /\ b % 2 = 1 THEN 2 ELSE 0

\* the expanded contents of archive b: pairs <<member, data>>
Members(b) == {<<m, b>> : m \in 1..MemberCount(b)}

(***************************************************************************)
(* Filesystem entries                                                      *)
(***************************************************************************)
Absent == [kind |-> "absent", blob |-> 0, n |-> 0, members |-> {}]

\* a regular file holding the first n chunks of blob b
File(b, n) == [kind |-> "file", blob |-> b, n |-> n, members |-> {}]

Whole(b) == File(b, NumChunks)

\* a directory holding the extracted members ms
Dir(ms) == [kind |-> "dir", blob |-> 0, n |-> 0, members |-> ms]

\* sha256 of the bytes of a regular file: injective on the contents that
\* occur, and no content digests to itself or to its blob number
Digest(e) == ((e.blob * (NumChunks + 1) + e.n) * 37 + 11) % 251

\* hash_matches(fname, known_hash) accepting every file: the comparison is
\* left out
HashMatchesAny(e, h) == TRUE

\* hash_matches(fname, known_hash): the sha256 of the file is known_hash
HashMatches(e, h) == Digest(e) = h

\* the hash literals a descriptor can carry: the digests of whole blobs
KnownHashes == {Digest(Whole(b)) : b \in Blobs}

(***************************************************************************)
(* Names under data["path"]                                                *)
(***************************************************************************)
FNames == {<<"A">>, <<"B">>}

\* f'{data["fname"]}.zip'
ZipName(f) == f \o <<"zip">>

Names == FNames \cup {ZipName(f) : f \in FNames}

\* a descriptor together with the needs_unzip flag of the call
Descriptors == [path : {"data"}, fname : FNames, known_hash : KnownHashes,
                needs_unzip : BOOLEAN]

\* full_path = data["path"] / data["fname"]
full_path(d) == <<d.path>> \o d.fname

\* the name of a path under data["path"]
NameOf(path) == Tail(path)

\* Path.is_file() in the place of Path.exists()
FastPathTestIsFile(e) == e.kind = "file"

\* Path.exists()
FastPathTest(e) == e.kind # "absent"

\* the fname argument handed to pooch.retrieve
RetrieveName(d) == IF d.needs_unzip THEN ZipName(d.fname) ELSE d.fname

\* pooch.Unzip(extract_dir=data["fname"]): the directory named fname next
\* to the archive
ExtractDir(d) == d.fname

\* a retrieve that tries a failed download once more
download_attempts_retry == 1 + 1

\* pooch.retrieve is called without retry_if_failed: one attempt
download_attempts == 1

NoResult == [kind |-> "none", name |-> <<>>]
Returned(f) == [kind |-> "path", name |-> f]
Raised(err) == [kind |-> err, name |-> <<>>]

ErrorKinds == {"NetworkError", "IntegrityError", "FilesystemError", "ExtractError"}

VARIABLES
    dirState,     \* data["path"]: "missing", "uncreatable", "writable", "readonly"
    fs,           \* Names -> entry: what is stored under data["path"]
    tmp,          \* caller -> entry: the caller's temporary file in data["path"]
    pc,           \* caller -> position in download_data / pooch.retrieve
    desc,         \* caller -> descriptor of the current call
    netUp,        \* caller -> whether the network is reachable during the call
    remote,       \* caller -> blob the url serves during the call
    action,       \* caller -> pooch's download action
    result,       \* caller -> outcome of the current call
    attempts,     \* caller -> number of download attempts of the call
    hashChecks,   \* caller -> number of hash comparisons of the call
    verified,     \* caller -> the downloaded file passed the hash check
    received,     \* caller -> the file the downloader delivered, if it returned
    errors,       \* caller -> number of exceptions raised during the call
    startFs,      \* caller -> fs when the call started
    startDir,     \* caller -> dirState when the call started
    extracted,    \* caller -> number of archive members extracted by the call
    repeat,       \* caller -> what the call right before returned, when it
                  \*           succeeded with the same descriptor
    writer,       \* name -> the caller whose file was moved there last, or 0
    img_data,     \* a pixel of the rendered image, as a 32-bit word
    rgba,         \* the channels separated from the pixel
    texture_data, \* the channels stacked for the texture
    cell          \* how far the texture cell has run

vars == <<dirState, fs, tmp, pc, desc, netUp, remote, action, result,
          attempts, hashChecks, verified, received, errors, startFs,
          startDir, extracted, repeat, writer, img_data, rgba,
          texture_data, cell>>

callVars == <<desc, netUp, startFs, startDir, repeat>>

pixVars == <<img_data, rgba, texture_data, cell>>

dataVars == <<dirState, fs, tmp, pc, desc, netUp, remote, action, result,
              attempts, hashChecks, verified, received, errors, startFs,
              startDir, extracted, repeat, writer>>

(***************************************************************************)
(* Initial states: the filesystem the first call finds                     *)
(***************************************************************************)
EmptyFs == [nm \in Names |-> Absent]

\* what an earlier session or the user may have left under data["path"]:
\* a whole or truncated file or a directory at a candidate path, or an
\* archive
InitEntries(nm) ==
    IF nm \in FNames
    THEN {Whole(b) : b \in Blobs} \cup {File(0, 1)} \cup {Dir({})}
    ELSE {Whole(b) : b \in Blobs}

InitFs == {EmptyFs} \cup
          UNION {{[EmptyFs EXCEPT ![nm] = e] : e \in InitEntries(nm)}
                 : nm \in {<<"A">>, ZipName(<<"A">>)}}

DefaultDesc == [path |-> "data", fname |-> <<"A">>,
                known_hash |-> Digest(Whole(0)), needs_unzip |-> FALSE]

DataInit ==
    /\ dirState \in {"missing", "uncreatable", "writable", "readonly"}
    /\ fs \in InitFs
    /\ dirState \in {"missing", "uncreatable"} => fs = EmptyFs
    /\ tmp = [p \in Callers |-> Absent]
    /\ pc = [p \in Callers |-> "idle"]
    /\ desc = [p \in Callers |-> DefaultDesc]
    /\ netUp = [p \in Callers |-> TRUE]
    /\ remote = [p \in Callers |-> 0]
    /\ action = [p \in Callers |-> "none"]
    /\ result = [p \in Callers |-> NoResult]
    /\ attempts = [p \in Callers |-> 0]
    /\ hashChecks = [p \in Callers |-> 0]
    /\ verified = [p \in Callers |-> FALSE]
    /\ received = [p \in Callers |-> Absent]
    /\ errors = [p \in Callers |-> 0]
    /\ startFs = [p \in Callers |-> fs]
    /\ startDir = [p \in Callers |-> dirState]
    /\ extracted = [p \in Callers |-> 0]
    /\ repeat = [p \in Callers |-> NoResult]
    /\ writer = [nm \in Names |-> 0]

\* the state before the first call; the texture cell has not run
Init ==
    /\ DataInit
    /\ img_data = <<0, 0>>
    /\ rgba = [r |-> 0, g |-> 0, b |-> 0, a |-> 0]
    /\ texture_data = <<>>
    /\ cell = "none"

(***************************************************************************)
(* download_data                                                           *)
(***************************************************************************)
\* an exception leaves download_data: the call ends without a path
Raise(p, err) ==
    /\ result' = [result EXCEPT ![p] = Raised(err)]
    /\ errors' = [errors EXCEPT ![p] = @ + 1]
    /\ pc' = [pc EXCEPT ![p] = "done"]

\* download_data(data, needs_unzip) is entered
Call(p, d, up) ==
    /\ pc[p] \in {"idle", "done"}
    /\ pc' = [pc EXCEPT ![p] = "check"]
    /\ desc' = [desc EXCEPT ![p] = d]
    /\ netUp' = [netUp EXCEPT ![p] = up]
    /\ repeat' = [repeat EXCEPT ![p] =
                     IF result[p].kind = "path" /\ desc[p] = d
                     THEN result[p] ELSE NoResult]
    /\ startFs' = [startFs EXCEPT ![p] = fs]
    /\ startDir' = [startDir EXCEPT ![p] = dirState]
    /\ result' = [result EXCEPT ![p] = NoResult]
    /\ action' = [action EXCEPT ![p] = "none"]
    /\ remote' = [remote EXCEPT ![p] = 0]
    /\ attempts' = [attempts EXCEPT ![p] = 0]
    /\ hashChecks' = [hashChecks EXCEPT ![p] = 0]
    /\ verified' = [verified EXCEPT ![p] = FALSE]
    /\ received' = [received EXCEPT ![p] = Absent]
    /\ errors' = [errors EXCEPT ![p] = 0]
    /\ extracted' = [extracted EXCEPT ![p] = 0]
    /\ UNCHANGED <<dirState, fs, tmp, writer, pixVars>>

\* if full_path.exists(): print(...)   else: pooch.retrieve(...)
CheckExists(p) ==
    /\ pc[p] = "check"
    /\ pc' = [pc EXCEPT ![p] =
                 IF FastPathTest(fs[NameOf(full_path(desc[p]))]) THEN "return" ELSE "action"]
    /\ UNCHANGED <<dirState, fs, tmp, action, remote, result, errors,
                   attempts, hashChecks, verified, received, extracted,
                   writer, callVars, pixVars>>

\* return of what pooch.retrieve was asked to store, not of full_path
ReturnRetrieved(p) ==
    /\ pc[p] = "return"
    /\ result' = [result EXCEPT ![p] =
                     Returned(<<desc[p].path>> \o RetrieveName(desc[p]))]
    /\ pc' = [pc EXCEPT ![p] = "done"]
    /\ UNCHANGED <<dirState, fs, tmp, action, remote, errors, attempts,
                   hashChecks, verified, received, extracted, writer,
                   callVars, pixVars>>

\* return full_path
Return(p) ==
    /\ pc[p] = "return"
    /\ result' = [result EXCEPT ![p] = Returned(full_path(desc[p]))]
    /\ pc' = [pc EXCEPT ![p] = "done"]
    /\ UNCHANGED <<dirState, fs, tmp, action, remote, errors, attempts,
                   hashChecks, verified, received, extracted, writer,
                   callVars, pixVars>>

(***************************************************************************)
(* pooch.retrieve                                                          *)
(***************************************************************************)
\* download_action(full_path, known_hash): "download" when the file is
\* missing, "update" when its hash differs, "fetch" otherwise
ActionFor(e, h) ==
    IF e.kind = "absent" THEN "download"
    ELSE IF ~HashMatches(e, h) THEN "update"
    ELSE "fetch"

\* where retrieve goes once the file is in place: the processor, if any
AfterFile(d) == IF d.needs_unzip THEN "process" ELSE "return"

DownloadAction(p) ==
    /\ pc[p] = "action"
    /\ LET e == fs[RetrieveName(desc[p])]
           a == ActionFor(e, desc[p].known_hash)
       IN IF e.kind = "dir"
          THEN \* hash_matches opens the path as a file
               /\ Raise(p, "FilesystemError")
               /\ UNCHANGED <<action, hashChecks>>
          ELSE /\ action' = [action EXCEPT ![p] = a]
               /\ hashChecks' = [hashChecks EXCEPT ![p] =
                                    IF e.kind = "absent" THEN @ ELSE @ + 1]
               /\ pc' = [pc EXCEPT ![p] =
                            IF a \in {"download", "update"} THEN "mkdir"
                            ELSE AfterFile(desc[p])]
               /\ UNCHANGED <<result, errors>>
    /\ UNCHANGED <<dirState, fs, tmp, remote, attempts, verified, received,
                   extracted, writer, callVars, pixVars>>

\* make_local_storage that goes on without creating a missing directory
MakeLocalStorageNoCreate(p) ==
    /\ pc[p] = "mkdir"
    /\ dirState \in {"missing", "writable"}
    /\ pc' = [pc EXCEPT ![p] = "download"]
    /\ UNCHANGED <<dirState, fs, tmp, action, remote, result, errors,
                   attempts, hashChecks, verified, received, extracted,
                   writer, callVars, pixVars>>

\* make_local_storage(path): create the directory, or check that it can be
\* written to
MakeLocalStorage(p) ==
    /\ pc[p] = "mkdir"
    /\ dirState \in {"missing", "writable"}
    /\ dirState' = "writable"
    /\ pc' = [pc EXCEPT ![p] = "download"]
    /\ UNCHANGED <<fs, tmp, action, remote, result, errors, attempts,
                   hashChecks, verified, received, extracted, writer,
                   callVars, pixVars>>

\* make_local_storage raises PermissionError
MakeLocalStorageFail(p) ==
    /\ pc[p] = "mkdir"
    /\ dirState \in {"uncreatable", "readonly"}
    /\ Raise(p, "FilesystemError")
    /\ UNCHANGED <<dirState, fs, tmp, action, remote, attempts, hashChecks,
                   verified, received, extracted, writer, callVars, pixVars>>

\* a stream_download that also opens the destination file for writing
StartDownloadInPlace(p) ==
    /\ pc[p] = "download"
    /\ \E b \in Blobs : remote' = [remote EXCEPT ![p] = b]
    /\ tmp' = [tmp EXCEPT ![p] = File(0, 0)]
    /\ fs' = [fs EXCEPT ![RetrieveName(desc[p])] = File(0, 0)]
    /\ attempts' = [attempts EXCEPT ![p] = @ + 1]
    /\ pc' = [pc EXCEPT ![p] = "transfer"]
    /\ UNCHANGED <<dirState, action, result, errors, hashChecks, verified,
                   received, extracted, writer, callVars, pixVars>>

\* stream_download: open a temporary file in the directory and hand it to
\* the downloader
StartDownload(p) ==
    /\ pc[p] = "download"
    /\ \E b \in Blobs : remote' = [remote EXCEPT ![p] = b]
    /\ tmp' = [tmp EXCEPT ![p] = File(0, 0)]
    /\ attempts' = [attempts EXCEPT ![p] = @ + 1]
    /\ pc' = [pc EXCEPT ![p] = "transfer"]
    /\ UNCHANGED <<dirState, fs, action, result, errors, hashChecks,
                   verified, received, extracted, writer, callVars, pixVars>>

\* the downloader writes the next chunk to the temporary file
DownloadChunk(p) ==
    /\ pc[p] = "transfer"
    /\ netUp[p]
    /\ tmp[p].n < NumChunks
    /\ tmp' = [tmp EXCEPT ![p] = File(remote[p], @.n + 1)]
    /\ UNCHANGED <<dirState, fs, pc, action, remote, result, errors,
                   attempts, hashChecks, verified, received, extracted,
                   writer, callVars, pixVars>>

\* the downloader returns: the stream ended, after the last chunk or, when
\* the server cut it short without an error, before
DownloadEnd(p) ==
    /\ pc[p] = "transfer"
    /\ netUp[p]
    /\ received' = [received EXCEPT ![p] = tmp[p]]
    /\ pc' = [pc EXCEPT ![p] = "verify"]
    /\ UNCHANGED <<dirState, fs, tmp, action, remote, result, errors,
                   attempts, hashChecks, verified, extracted, writer,
                   callVars, pixVars>>

\* a stream_download that tries again after a failed attempt, whatever
\* download_attempts says, and gives up after the third
AttemptFailedRetry(p, err) ==
    /\ tmp' = [tmp EXCEPT ![p] = Absent]
    /\ IF attempts[p] < 3
       THEN /\ pc' = [pc EXCEPT ![p] = "download"]
            /\ errors' = [errors EXCEPT ![p] = @ + 1]
            /\ UNCHANGED result
       ELSE Raise(p, err)

\* except (ValueError, RequestException): the temporary file is removed;
\* the last attempt re-raises, an earlier one tries again
AttemptFailed(p, err) ==
    /\ tmp' = [tmp EXCEPT ![p] = Absent]
    /\ IF attempts[p] < download_attempts
       THEN /\ pc' = [pc EXCEPT ![p] = "download"]
            /\ errors' = [errors EXCEPT ![p] = @ + 1]
            /\ UNCHANGED result
       ELSE Raise(p, err)

\* the downloader raises: the source is unreachable or the transfer broke
DownloadFail(p) ==
    /\ pc[p] = "transfer"
    /\ AttemptFailed(p, "NetworkError")
    /\ UNCHANGED <<dirState, fs, action, remote, attempts, hashChecks,
                   verified, received, extracted, writer, callVars, pixVars>>

\* hash_matches(tmp, known_hash, strict=True) holds
Verify(p) ==
    /\ pc[p] = "verify"
    /\ HashMatches(tmp[p], desc[p].known_hash)
    /\ hashChecks' = [hashChecks EXCEPT ![p] = @ + 1]
    /\ verified' = [verified EXCEPT ![p] = TRUE]
    /\ pc' = [pc EXCEPT ![p] = "move"]
    /\ UNCHANGED <<dirState, fs, tmp, action, remote, result, errors,
                   attempts, received, extracted, writer, callVars, pixVars>>

\* a stream_download that moves the file into place before the hash check
VerifyFailAfterMove(p) ==
    /\ pc[p] = "verify"
    /\ ~HashMatches(tmp[p], desc[p].known_hash)
    /\ hashChecks' = [hashChecks EXCEPT ![p] = @ + 1]
    /\ fs' = [fs EXCEPT ![RetrieveName(desc[p])] = tmp[p]]
    /\ AttemptFailed(p, "IntegrityError")
    /\ UNCHANGED <<dirState, action, remote, attempts, verified, received,
                   extracted, writer, callVars, pixVars>>

\* hash_matches raises ValueError
VerifyFail(p) ==
    /\ pc[p] = "verify"
    /\ ~HashMatches(tmp[p], desc[p].known_hash)
    /\ hashChecks' = [hashChecks EXCEPT ![p] = @ + 1]
    /\ AttemptFailed(p, "IntegrityError")
    /\ UNCHANGED <<dirState, fs, action, remote, attempts, verified,
                   received, extracted, writer, callVars, pixVars>>

\* a move that loses the file: the destination stays as it was
MovedLost(old, new) == old

\* a move that does not replace a file that is already there
MovedKeepFirst(old, new) == IF old.kind = "absent" THEN new ELSE old

\* what shutil.move(tmp, full_path) leaves at full_path: the file, or, when
\* full_path is a directory, the directory with the file inside
Moved(old, new) ==
    IF old.kind = "dir" THEN Dir(old.members \cup {<<0, new.blob>>}) ELSE new

\* shutil.move(tmp, str(fname))
Move(p) ==
    /\ pc[p] = "move"
    /\ fs' = [fs EXCEPT ![RetrieveName(desc[p])] = Moved(@, tmp[p])]
    /\ writer' = [writer EXCEPT ![RetrieveName(desc[p])] = p]
    /\ tmp' = [tmp EXCEPT ![p] = Absent]
    /\ pc' = [pc EXCEPT ![p] = AfterFile(desc[p])]
    /\ UNCHANGED <<dirState, action, remote, result, errors, attempts,
                   hashChecks, verified, received, extracted, callVars,
                   pixVars>>

(***************************************************************************)
(* pooch.Unzip                                                             *)
(***************************************************************************)
\* the processor extracts after a download or update, or when the extract
\* directory is missing
NeedsExtract(a, e) == a \in {"update", "download"} \/ e.kind = "absent"

\* the processor is called and finds the extraction already there
ProcessSkip(p) ==
    /\ pc[p] = "process"
    /\ ~NeedsExtract(action[p], fs[ExtractDir(desc[p])])
    /\ pc' = [pc EXCEPT ![p] = "return"]
    /\ UNCHANGED <<dirState, fs, tmp, action, remote, result, errors,
                   attempts, hashChecks, verified, received, extracted,
                   writer, callVars, pixVars>>

\* what os.makedirs(extract_dir, exist_ok=True) leaves at extract_dir
MadeDir(e) == IF e.kind = "absent" THEN Dir({}) ELSE e

\* os.makedirs(self.extract_dir, exist_ok=True)
MakeExtractDir(p) ==
    /\ pc[p] = "process"
    /\ NeedsExtract(action[p], fs[ExtractDir(desc[p])])
    /\ fs[ExtractDir(desc[p])].kind # "file"
    /\ fs[ExtractDir(desc[p])].kind = "absent" => dirState = "writable"
    /\ fs' = [fs EXCEPT ![ExtractDir(desc[p])] = MadeDir(@)]
    /\ pc' = [pc EXCEPT ![p] = "extract"]
    /\ UNCHANGED <<dirState, tmp, action, remote, result, errors, attempts,
                   hashChecks, verified, received, extracted, writer,
                   callVars, pixVars>>

\* os.makedirs raises: a file is in the way, or the directory is read-only
MakeExtractDirFail(p) ==
    /\ pc[p] = "process"
    /\ NeedsExtract(action[p], fs[ExtractDir(desc[p])])
    /\ \/ fs[ExtractDir(desc[p])].kind = "file"
       \/ fs[ExtractDir(desc[p])].kind = "absent" /\ dirState # "writable"
    /\ Raise(p, "FilesystemError")
    /\ UNCHANGED <<dirState, fs, tmp, action, remote, attempts, hashChecks,
                   verified, received, extracted, writer, callVars, pixVars>>

\* zipfile can read the archive: it is a complete zip file
Readable(e) == e.kind = "file" /\ e.n = NumChunks /\ IsZip(e.blob)

\* ZipFile(fname) raises: the verified file is not a zip archive
ExtractBadZip(p) ==
    /\ pc[p] = "extract"
    /\ ~Readable(fs[RetrieveName(desc[p])])
    /\ Raise(p, "ExtractError")
    /\ UNCHANGED <<dirState, fs, tmp, action, remote, attempts, hashChecks,
                   verified, received, extracted, writer, callVars, pixVars>>

\* extractall writes the next member into the extract directory
ExtractMember(p) ==
    /\ pc[p] = "extract"
    /\ Readable(fs[RetrieveName(desc[p])])
    /\ LET b == fs[RetrieveName(desc[p])].blob
       IN /\ extracted[p] < MemberCount(b)
          /\ fs' = [fs EXCEPT ![ExtractDir(desc[p])] =
                       Dir(@.members \cup {<<extracted[p] + 1, b>>})]
    /\ extracted' = [extracted EXCEPT ![p] = @ + 1]
    /\ UNCHANGED <<dirState, tmp, pc, action, remote, result, errors,
                   attempts, hashChecks, verified, received, writer,
                   callVars, pixVars>>

\* extractall raises while members are still to be written (I/O error)
ExtractFail(p) ==
    /\ pc[p] = "extract"
    /\ Readable(fs[RetrieveName(desc[p])])
    /\ extracted[p] < MemberCount(fs[RetrieveName(desc[p])].blob)
    /\ Raise(p, "ExtractError")
    /\ UNCHANGED <<dirState, fs, tmp, action, remote, attempts, hashChecks,
                   verified, received, extracted, writer, callVars, pixVars>>

\* an extractall that stops one member short
ExtractDoneEarly(p) ==
    /\ pc[p] = "extract"
    /\ Readable(fs[RetrieveName(desc[p])])
    /\ extracted[p] + 1 >= MemberCount(fs[RetrieveName(desc[p])].blob)
    /\ pc' = [pc EXCEPT ![p] = "return"]
    /\ UNCHANGED <<dirState, fs, tmp, action, remote, result, errors,
                   attempts, hashChecks, verified, received, extracted,
                   writer, callVars, pixVars>>

\* extractall is through; retrieve returns the member list
ExtractDone(p) ==
    /\ pc[p] = "extract"
    /\ Readable(fs[RetrieveName(desc[p])])
    /\ extracted[p] = MemberCount(fs[RetrieveName(desc[p])].blob)
    /\ pc' = [pc EXCEPT ![p] = "return"]
    /\ UNCHANGED <<dirState, fs, tmp, action, remote, result, errors,
                   attempts, hashChecks, verified, received, extracted,
                   writer, callVars, pixVars>>

(***************************************************************************)
(* Specifications                                                          *)
(***************************************************************************)
\* the steps of a call after its entry.  ProcessSkip is not among them: it
\* needs the extract directory to appear between the existence check of
\* download_data and the processor, which takes a second caller
Step(p) ==
    \/ CheckExists(p)
    \/ Return(p)
    \/ DownloadAction(p)
    \/ MakeLocalStorage(p)
    \/ MakeLocalStorageFail(p)
    \/ StartDownload(p)
    \/ DownloadChunk(p)
    \/ DownloadEnd(p)
    \/ DownloadFail(p)
    \/ Verify(p)
    \/ VerifyFail(p)
    \/ Move(p)
    \/ MakeExtractDir(p)
    \/ MakeExtractDirFail(p)
    \/ ExtractBadZip(p)
    \/ ExtractMember(p)
    \/ ExtractFail(p)
    \/ ExtractDone(p)

\* one notebook, one cell at a time: calls follow each other
Next ==
    \E p \in SeqCallers :
        \/ \E d \in Descriptors, up \in BOOLEAN : Call(p, d, up)
        \/ Step(p)

Spec == Init /\ [][Next]_vars

\* the call runs to its end: the interpreter takes the next step, and the
\* transfer delivers its next chunk, ends or breaks
FairCall(p, d, up) ==
    /\ d.fname = <<"A">>
    /\ Call(p, d, up)

\* the calls of one notebook for one file name, one after the other
NextFair ==
    \E p \in SeqCallers :
        \/ \E d \in Descriptors, up \in BOOLEAN : FairCall(p, d, up)
        \/ Step(p)

SpecFair == Init /\ [][NextFair]_vars /\ \A p \in SeqCallers : WF_vars(Step(p))

\* two callers race for one candidate path: nothing is stored yet, and each
\* caller makes one call for data["path"]/A
InitConc == Init /\ fs = EmptyFs

ConcCall(p, d, up) ==
    /\ pc[p] = "idle"
    /\ d.fname = <<"A">>
    /\ Call(p, d, up)

\* two callers whose calls interleave step by step
NextConc ==
    \E p \in Callers :
        \/ \E d \in Descriptors, up \in BOOLEAN : ConcCall(p, d, up)
        \/ Step(p)
        \/ ProcessSkip(p)

SpecConc == InitConc /\ [][NextConc]_vars

(***************************************************************************)
(* The texture cell: RGBA channel separation (lines 654-661)               *)
(*                                                                         *)
(* A uint32 is kept as the pair <<hi, lo>> of its 16-bit halves, its value *)
(* being hi * 2^16 + lo, so that all 32 bits are kept.                     *)
(***************************************************************************)
Half == 2^16

\* np.bitwise_and on n-bit operands, bit by bit
RECURSIVE BitAnd(_, _, _)
BitAnd(x, y, n) ==
    IF n = 0 THEN 0
    ELSE (x % 2) * (y % 2) + 2 * BitAnd(x \div 2, y \div 2, n - 1)

\* np.bitwise_and(img_data, mask) on uint32
bitwise_and(w, mask) == <<BitAnd(w[1], mask[1], 16), BitAnd(w[2], mask[2], 16)>>

\* np.right_shift(x, k) on uint32, 0 <= k < 32: the low bits fall off, the
\* low bits of the high half move into the low half
right_shift(w, k) ==
    IF k >= 16
    THEN <<0, w[1] \div 2^(k - 16)>>
    ELSE <<w[1] \div 2^k,
           (w[2] \div 2^k + (w[1] % 2^k) * 2^(16 - k)) % Half>>

\* .astype(np.uint8): the low 8 bits
astype_uint8(w) == w[2] % 256

\* 0x000000FF, 0x0000FF00, 0x00FF0000, 0xFF000000
Mask_r == <<0, 255>>
Mask_g == <<0, 255 * 256>>
Mask_b == <<255, 0>>
Mask_a == <<255 * 256, 0>>

\* the uint32 values that are narrowed to uint8
Wide_r(w) == bitwise_and(w, Mask_r)

\* the green channel masked but not shifted down
Wide_g_NoShift(w) == bitwise_and(w, Mask_g)

Wide_g(w) == right_shift(bitwise_and(w, Mask_g), 8)
Wide_b(w) == right_shift(bitwise_and(w, Mask_b), 16)
Wide_a(w) == right_shift(bitwise_and(w, Mask_a), 24)

\* np.dstack((r, g, b)) at one pixel
dstack(c) == <<c.r, c.g, c.b>>

\* the channel bytes pixels are made of
ByteSamples == {0, 127, 128, 255} \cup {(k * k * 37 + k) % 256 : k \in 1..MaxSample}

\* the pixels of img: every combination of the sampled channel bytes
Pixels == {<<c4 * 256 + c3, c2 * 256 + c1>> :
              c1 \in ByteSamples, c2 \in ByteSamples,
              c3 \in ByteSamples, c4 \in ByteSamples}

\* img_data = np.array(img, dtype=np.uint32) has been evaluated; nothing
\* is downloaded meanwhile
InitPixel ==
    /\ DataInit
    /\ dirState = "writable"
    /\ fs = EmptyFs
    /\ img_data \in Pixels
    /\ rgba = [r |-> 0, g |-> 0, b |-> 0, a |-> 0]
    /\ texture_data = <<>>
    /\ cell = "loaded"

\* r = ..., g = ..., b = ..., a = ...
Separate ==
    /\ cell = "loaded"
    /\ rgba' = [r |-> astype_uint8(Wide_r(img_data)),
                g |-> astype_uint8(Wide_g(img_data)),
                b |-> astype_uint8(Wide_b(img_data)),
                a |-> astype_uint8(Wide_a(img_data))]
    /\ cell' = "separated"
    /\ UNCHANGED <<img_data, texture_data, dataVars>>

\* texture_data = np.dstack((r, g, b))
Stack ==
    /\ cell = "separated"
    /\ texture_data' = dstack(rgba)
    /\ cell' = "stacked"
    /\ UNCHANGED <<img_data, rgba, dataVars>>

NextPixel == Separate \/ Stack

SpecPixel == InitPixel /\ [][NextPixel]_vars

(***************************************************************************)
(* Properties                                                              *)
(***************************************************************************)
\* the entry at the candidate path data["path"]/data["fname"], now and when
\* the call started
Cand(p) == fs[desc[p].fname]
StartCand(p) == startFs[p][desc[p].fname]

InCall(p) == pc[p] # "idle"
Done(p) == pc[p] = "done"
Succeeded(p) == Done(p) /\ result[p].kind = "path"

\* C1: a call that finds something at the candidate path, whatever its
\* content, goes from the existence check straight to the return of that
\* path, with no download attempt and no hash comparison.
C1_FastPath ==
    \A p \in Callers :
        InCall(p) /\ StartCand(p).kind # "absent" =>
            /\ pc[p] \in {"check", "return", "done"}
            /\ attempts[p] = 0
            /\ hashChecks[p] = 0
            /\ Done(p) => result[p] = Returned(<<"data">> \o desc[p].fname)

\* a call returned on the fast path although the file at the candidate path
\* is truncated and does not have the expected digest
C1_Witness ==
    \E p \in Callers :
        /\ Succeeded(p)
        /\ StartCand(p) = File(0, 1)
        /\ Digest(StartCand(p)) # desc[p].known_hash

\* C2: a call that repeats the descriptor of the successful call right
\* before it, with the network down, makes no download attempt and returns
\* the path the first call returned (needs_unzip false or true).
C2_Idempotent ==
    \A p \in Callers :
        InCall(p) /\ repeat[p].kind = "path" /\ ~netUp[p] =>
            /\ attempts[p] = 0
            /\ errors[p] = 0
            /\ Done(p) => result[p] = repeat[p]

\* the second of two unpacking calls returned with the network down
C2_Witness ==
    \E p \in Callers :
        /\ Succeeded(p)
        /\ repeat[p].kind = "path"
        /\ ~netUp[p]
        /\ desc[p].needs_unzip
        /\ Cand(p).kind = "dir"

\* C3: a call whose download delivered bytes from a source whose content
\* does not have the expected digest ends in IntegrityError, with nothing
\* at the candidate path and no temporary file.
C3_Integrity ==
    \A p \in Callers :
        /\ Done(p)
        /\ received[p].kind = "file"
        /\ Digest(Whole(remote[p])) # desc[p].known_hash
        => /\ result[p] = Raised("IntegrityError")
           /\ Cand(p).kind = "absent"
           /\ tmp[p].kind = "absent"

\* a complete transfer of the wrong bytes was rejected
C3_Witness ==
    \E p \in Callers :
        /\ Done(p)
        /\ received[p] = Whole(remote[p])
        /\ Digest(received[p]) # desc[p].known_hash
        /\ result[p] = Raised("IntegrityError")

\* C4 as stated: during a call that started with the candidate path absent,
\* the candidate path is absent or holds the completely downloaded file,
\* which passed the hash check.
C4_Original ==
    \A p \in Callers :
        InCall(p) /\ StartCand(p).kind = "absent" =>
            \/ Cand(p).kind = "absent"
            \/ /\ Cand(p) = Whole(remote[p])
               /\ verified[p]
               /\ Digest(Cand(p)) = desc[p].known_hash

\* C4: during a call that started with the candidate path absent, the
\* candidate path is absent, or (needs_unzip false) holds the completely
\* downloaded file, which passed the hash check, or (needs_unzip true) is a
\* directory holding members of the archive fname.zip, which is complete
\* and was compared with known_hash and found equal.
C4_Atomic ==
    \A p \in Callers :
        InCall(p) /\ StartCand(p).kind = "absent" =>
            \/ Cand(p).kind = "absent"
            \/ /\ ~desc[p].needs_unzip
               /\ Cand(p) = Whole(remote[p])
               /\ verified[p]
               /\ Digest(Cand(p)) = desc[p].known_hash
            \/ /\ desc[p].needs_unzip
               /\ Cand(p).kind = "dir"
               /\ LET zip == fs[ZipName(desc[p].fname)]
                  IN /\ zip.kind = "file"
                     /\ zip.n = NumChunks
                     /\ Digest(zip) = desc[p].known_hash
                     /\ hashChecks[p] > 0
                     /\ Cand(p).members \subseteq Members(zip.blob)

\* the verified file was placed at the candidate path
C4_Witness ==
    \E p \in Callers :
        /\ InCall(p)
        /\ StartCand(p).kind = "absent"
        /\ ~desc[p].needs_unzip
        /\ Cand(p) = Whole(remote[p])
        /\ verified[p]

\* C5 as stated: a call that ends in NetworkError, IntegrityError or
\* FilesystemError leaves the directory, the entries under it and the
\* temporary file as they were when it started.
C5_UnchangedOnFailure ==
    \A p \in Callers :
        /\ Done(p)
        /\ result[p].kind \in {"NetworkError", "IntegrityError", "FilesystemError"}
        => /\ dirState = startDir[p]
           /\ fs = startFs[p]
           /\ tmp[p].kind = "absent"

\* C6 as stated: after every successful call the file at the returned path
\* has the expected digest.
C6_Original ==
    \A p \in Callers :
        Succeeded(p) =>
            /\ fs[NameOf(result[p].name)].kind = "file"
            /\ Digest(fs[NameOf(result[p].name)]) = desc[p].known_hash

\* C6: after a successful call with needs_unzip false that started with the
\* candidate path absent, the file at the returned path has the expected
\* digest.
C6_RoundTrip ==
    \A p \in Callers :
        Succeeded(p) /\ ~desc[p].needs_unzip /\ StartCand(p).kind = "absent" =>
            /\ fs[NameOf(result[p].name)].kind = "file"
            /\ Digest(fs[NameOf(result[p].name)]) = desc[p].known_hash

\* a download was placed and returned
C6_Witness ==
    \E p \in Callers :
        /\ Succeeded(p)
        /\ ~desc[p].needs_unzip
        /\ StartCand(p).kind = "absent"
        /\ attempts[p] = 1
        /\ fs[NameOf(result[p].name)] = Whole(remote[p])

\* C7: with needs_unzip true and the candidate path absent at the start,
\* no regular file ever is at the candidate path, and a call that returns
\* returns data["path"]/fname, a directory holding exactly the members of
\* the archive stored as fname.zip, which is a complete zip file with the
\* expected digest.
C7_Unpack ==
    \A p \in Callers :
        InCall(p) /\ desc[p].needs_unzip /\ StartCand(p).kind = "absent" =>
            /\ Cand(p).kind # "file"
            /\ Succeeded(p) =>
                  LET zip == fs[ZipName(desc[p].fname)]
                  IN /\ result[p].name = <<"data">> \o desc[p].fname
                     /\ zip.kind = "file"
                     /\ zip.n = NumChunks
                     /\ IsZip(zip.blob)
                     /\ Digest(zip) = desc[p].known_hash
                     /\ Cand(p) = Dir(Members(zip.blob))

\* an archive of two members was downloaded and expanded
C7_Witness ==
    \E p \in Callers :
        /\ Succeeded(p)
        /\ desc[p].needs_unzip
        /\ StartCand(p).kind = "absent"
        /\ attempts[p] = 1
        /\ Cardinality(Cand(p).members) = 2

\* C8: a call makes at most one download attempt; it returns a path only
\* if no exception was raised during it, and a call during which an
\* exception was raised has ended with that error.
C8_Terminal ==
    \A p \in Callers :
        /\ attempts[p] <= 1
        /\ Succeeded(p) => errors[p] = 0
        /\ errors[p] > 0 => Done(p) /\ result[p].kind \in ErrorKinds /\ errors[p] = 1

\* a call ended in NetworkError after its one attempt, the transfer having
\* started
C8_Witness ==
    \E p \in Callers :
        /\ Done(p)
        /\ result[p] = Raised("NetworkError")
        /\ attempts[p] = 1
        /\ netUp[p]

\* the positions of a call past make_local_storage
PastMkdir == {"download", "transfer", "verify", "move"}

\* C9: with the candidate path absent, a missing directory exists once
\* make_local_storage is passed and neither a missing nor an existing
\* writable directory makes the call end in FilesystemError; a directory
\* that cannot be created or written makes it end in FilesystemError; with
\* the candidate path present, the directory, the entries under it and the
\* temporary file stay as they were.
C9_Directory ==
    \A p \in Callers :
        /\ InCall(p) /\ StartCand(p).kind = "absent"
               /\ startDir[p] \in {"missing", "writable"} =>
              /\ pc[p] \in PastMkdir => dirState = "writable"
              /\ Succeeded(p) => dirState = "writable"
              /\ result[p].kind # "FilesystemError"
        /\ Done(p) /\ StartCand(p).kind = "absent"
               /\ startDir[p] \in {"uncreatable", "readonly"} =>
              /\ result[p] = Raised("FilesystemError")
              /\ dirState = startDir[p]
        /\ InCall(p) /\ StartCand(p).kind # "absent" =>
              /\ dirState = startDir[p]
              /\ fs = startFs[p]
              /\ tmp[p].kind = "absent"

\* a call created the missing directory and returned
C9_Witness ==
    \E p \in Callers :
        /\ Succeeded(p)
        /\ startDir[p] = "missing"
        /\ dirState = "writable"

\* C10: every call that returns returns data["path"]/data["fname"], with
\* needs_unzip false or true, on the fast path or after a download, and
\* something exists at the returned path.
C10_ReturnValue ==
    \A p \in Callers :
        Succeeded(p) =>
            /\ result[p].name = <<desc[p].path>> \o desc[p].fname
            /\ fs[NameOf(result[p].name)].kind # "absent"

\* an unpacking call downloaded an archive and returned
C10_Witness ==
    \E p \in Callers :
        /\ Succeeded(p)
        /\ desc[p].needs_unzip
        /\ attempts[p] = 1
        /\ fs[ZipName(desc[p].fname)].kind = "file"

\* C11: two callers racing for one candidate path that was absent are not
\* kept apart, and in every state of every interleaving no name under the
\* directory holds a partially written file, and a file at a name is the
\* file that the caller who moved there last had downloaded.
C11_Race ==
    \A nm \in Names :
        /\ fs[nm].kind = "file" => fs[nm].n = NumChunks
        /\ writer[nm] # 0 /\ fs[nm].kind = "file" =>
              fs[nm] = received[writer[nm]]

\* both callers, with the same descriptor, passed the existence check,
\* downloaded, verified and moved; the second mover's file is in place
C11_Witness ==
    /\ desc[1] = desc[2]
    /\ ~desc[1].needs_unzip
    /\ \A p \in Callers :
          /\ Succeeded(p)
          /\ StartCand(p).kind = "absent"
          /\ attempts[p] = 1
          /\ verified[p]
    /\ writer[desc[1].fname] = 2
    /\ Cand(1) = received[2]

\* the archive of the call was compared with known_hash and found equal
ArchiveVerified(p) == verified[p] \/ action[p] = "fetch"

\* C12 as stated: an unpacking call that started with the candidate path
\* absent and failed after its archive was verified leaves nothing at the
\* candidate path.
C12_UnpackAtomic ==
    \A p \in Callers :
        /\ Done(p)
        /\ desc[p].needs_unzip
        /\ StartCand(p).kind = "absent"
        /\ ArchiveVerified(p)
        /\ result[p].kind \in ErrorKinds
        => Cand(p).kind = "absent"

\* the order of the positions of a call: existence check, download action,
\* directory creation, download, verification, placement, unpacking, return
Rank(at) ==
    CASE at = "idle" -> 0
      [] at = "check" -> 1
      [] at = "action" -> 2
      [] at = "mkdir" -> 3
      [] at = "download" -> 4
      [] at = "transfer" -> 5
      [] at = "verify" -> 6
      [] at = "move" -> 7
      [] at = "process" -> 8
      [] at = "extract" -> 9
      [] at = "return" -> 10
      [] at = "done" -> 11

Running(p) == pc[p] \notin {"idle", "done"}

\* C13 as stated: a call that has ended has returned a path or raised
\* NetworkError, IntegrityError or FilesystemError.
C13_Original ==
    \A p \in Callers :
        Done(p) =>
            result[p].kind \in {"path", "NetworkError", "IntegrityError",
                                "FilesystemError"}

\* C13: a call only moves forward through its positions (a step that stays
\* at a position writes one more chunk or one more member), a call that
\* has ended has returned a path or raised NetworkError, IntegrityError,
\* FilesystemError or an error of the extraction, and every call that runs
\* ends.
C13_Linear ==
    /\ [][\A p \in SeqCallers :
             /\ pc'[p] # pc[p] =>
                   \/ pc[p] \in {"idle", "done"} /\ pc'[p] = "check"
                   \/ Rank(pc'[p]) > Rank(pc[p])
             /\ pc'[p] = pc[p] =>
                   \/ tmp'[p].n > tmp[p].n
                   \/ extracted'[p] > extracted[p]]_vars
    /\ [](\A p \in Callers :
             /\ Done(p) => result[p].kind \in {"path"} \cup ErrorKinds
             /\ result[p].kind # "none" => Done(p))
    /\ \A p \in Callers : Running(p) ~> Done(p)

\* an unpacking call ended in an error of the extraction
C13_Witness ==
    \E p \in Callers :
        /\ Done(p)
        /\ verified[p]
        /\ result[p] = Raised("ExtractError")

\* C14: for a pixel p = hi * 2^16 + lo, the channels r, g, b, a are bits
\* 0-7, 8-15, 16-23, 24-31 of p; each value that is narrowed to 8 bits
\* already lies in 0..255, so the narrowing changes nothing;
\* r + 256 g + 65536 b + 16777216 a = p (half by half: r + 256 g = lo and
\* b + 256 a = hi); and the texture is (r, g, b), without a.
C14_Channels ==
    LET hi == img_data[1]
        lo == img_data[2]
    IN /\ cell \in {"separated", "stacked"} =>
          /\ rgba.r = lo % 256
          /\ rgba.g = (lo \div 256) % 256
          /\ rgba.b = hi % 256
          /\ rgba.a = (hi \div 256) % 256
          /\ \A c \in {rgba.r, rgba.g, rgba.b, rgba.a} : c \in 0..255
          /\ Wide_r(img_data) = <<0, rgba.r>>
          /\ Wide_g(img_data) = <<0, rgba.g>>
          /\ Wide_b(img_data) = <<0, rgba.b>>
          /\ Wide_a(img_data) = <<0, rgba.a>>
          /\ rgba.r + 256 * rgba.g = lo
          /\ rgba.b + 256 * rgba.a = hi
       /\ cell = "stacked" => texture_data = <<rgba.r, rgba.g, rgba.b>>

\* a pixel with four different channel bytes, the top bit of the word set,
\* was separated and stacked
C14_Witness ==
    /\ cell = "stacked"
    /\ img_data = <<255 * 256 + 128, 127 * 256 + 38>>
    /\ texture_data = <<38, 127, 128>>
    /\ rgba.a = 255

====
